---- MODULE Spec2Model ----
(***************************************************************************)
(* A model of battleship.py: the Ship / Fleet / Hit data model, the AI     *)
(* strategies, the player adapters and the Manager's game loop.            *)
(*                                                                         *)
(* Positions are pairs <<y, x>> (row first), as the tuples of the source.  *)
(* Lists are sequences (1-based); a Python index i is i + 1 here.          *)
(***************************************************************************)
EXTENDS Integers, Sequences, FiniteSets, TLC

(***************************************************************************)
(* Enumerations and constants of the source                                *)
(***************************************************************************)

\* class Direction
Direction == {"UP", "DOWN", "LEFT", "RIGHT"}

\* A rotate_clockwise that goes from LEFT to RIGHT
rotate_clockwise_skips_up(direction) ==
    CASE direction = "UP" -> "RIGHT"
      [] direction = "RIGHT" -> "DOWN"
      [] direction = "DOWN" -> "LEFT"
      [] direction = "LEFT" -> "RIGHT"

\* rotate_clockwise(direction)
rotate_clockwise(direction) ==
    CASE direction = "UP" -> "RIGHT"
      [] direction = "RIGHT" -> "DOWN"
      [] direction = "DOWN" -> "LEFT"
      [] direction = "LEFT" -> "UP"

\* A pos_in_bounds that lets a position lie on the border
pos_in_bounds_loose(pos, bounds_y, bounds_x) ==
    /\ pos[1] >= bounds_y[1]
    /\ pos[1] <= bounds_y[2]
    /\ pos[2] >= bounds_x[1]
    /\ pos[2] <= bounds_x[2]

\* pos_in_bounds(pos, bounds_y, bounds_x): strictly inside the rectangle
pos_in_bounds(pos, bounds_y, bounds_x) ==
    /\ pos[1] > bounds_y[1]
    /\ pos[1] < bounds_y[2]
    /\ pos[2] > bounds_x[1]
    /\ pos[2] < bounds_x[2]

\* class ShipType, in the enum's iteration order; a type is named by its value
ShipTypes == <<"P", "S", "D", "B", "C">>

\* ShipType.size_of
size_of(ship_type) ==
    CASE ship_type = "P" -> 2
      [] ship_type = "S" -> 3
      [] ship_type = "D" -> 3
      [] ship_type = "B" -> 4
      [] ship_type = "C" -> 5

\* Manager.MIN_WINDOW_WIDTH, Manager.MIN_WINDOW_HEIGHT
MIN_WINDOW_WIDTH == 85
MIN_WINDOW_HEIGHT == 30

\* gameboard_width, gameboard_height of Manager.__set_bounds
gameboard_width == 40
gameboard_height == 20

(***************************************************************************)
(* Hit                                                                     *)
(***************************************************************************)

\* Hit.miss(target_pos)
HitMiss(target_pos) ==
    [target_position |-> target_pos, hit_type |-> "MISS", character |-> "O",
     ship_positions |-> << >>]

\* Hit.hit(target_pos)
HitHit(target_pos) ==
    [target_position |-> target_pos, hit_type |-> "HIT", character |-> "X",
     ship_positions |-> << >>]

\* Hit.sunk(target_pos, ship_char, positions)
HitSunk(target_pos, ship_char, positions) ==
    [target_position |-> target_pos, hit_type |-> "SUNK", character |-> ship_char,
     ship_positions |-> positions]

(***************************************************************************)
(* Ship                                                                    *)
(***************************************************************************)

\* Ship.generate_positions(start_pos, rotation, ship_size)
generate_positions(start_pos, rotation, ship_size) ==
    [k \in 1..ship_size |->
        LET i == k - 1
            y == start_pos[1]
            x == start_pos[2]
        IN  CASE rotation = "RIGHT" -> <<y, x + i>>
              [] rotation = "LEFT" -> <<y, x - i>>
              [] rotation = "UP" -> <<y - i, x>>
              [] rotation = "DOWN" -> <<y + i, x>>]

\* An in_bounds that tests the first position only
in_bounds_first(positions, bounds_y, bounds_x) ==
    pos_in_bounds(positions[1], bounds_y, bounds_x)

\* Ship.in_bounds of a ship whose positions are `positions`: the first and the
\* last position only
in_bounds(positions, bounds_y, bounds_x) ==
    /\ pos_in_bounds(positions[1], bounds_y, bounds_x)
    /\ pos_in_bounds(positions[Len(positions)], bounds_y, bounds_x)

\* An update_positions that takes the new start position before the test
update_positions_moves(ship, start_pos) ==
    LET new_positions == generate_positions(start_pos, ship.rotation, ship.size)
    IN  IF ~in_bounds(new_positions, ship.bounds_y, ship.bounds_x)
        THEN [ship |-> [ship EXCEPT !.start_pos = start_pos], ok |-> FALSE]
        ELSE [ship |-> [ship EXCEPT !.positions = new_positions,
                                    !.start_pos = start_pos],
              ok |-> TRUE]

\* Ship.update_positions(start_pos): the ship afterwards and the value returned
update_positions(ship, start_pos) ==
    LET new_positions == generate_positions(start_pos, ship.rotation, ship.size)
    IN  IF ~in_bounds(new_positions, ship.bounds_y, ship.bounds_x)
        THEN [ship |-> ship, ok |-> FALSE]
        ELSE [ship |-> [ship EXCEPT !.positions = new_positions,
                                    !.start_pos = start_pos],
              ok |-> TRUE]

\* Ship.__init__
ShipInit(ship_type, start_pos, rotation, bounds_y, bounds_x) ==
    update_positions(
        [ship_type |-> ship_type,
         size |-> size_of(ship_type),
         hits |-> [k \in 1..size_of(ship_type) |-> FALSE],
         start_pos |-> start_pos,
         rotation |-> rotation,
         bounds_y |-> bounds_y,
         bounds_x |-> bounds_x,
         positions |-> << >>],
        start_pos).ship

\* Ship.move(direction)
ShipMove(ship, direction) ==
    LET y == ship.start_pos[1]
        x == ship.start_pos[2]
    IN  CASE direction = "RIGHT" -> update_positions(ship, <<y, x + 1>>).ship
          [] direction = "LEFT" -> update_positions(ship, <<y, x - 1>>).ship
          [] direction = "UP" -> update_positions(ship, <<y - 1, x>>).ship
          [] direction = "DOWN" -> update_positions(ship, <<y + 1, x>>).ship

\* The while loop of Ship.rotate: advance the orientation until
\* update_positions succeeds.  After four advances the orientation is the one
\* tried first, so when none of four succeeds the loop never ends: `fuel`
\* counts the advances left before that is known, and `left` is what is left
\* of it at the end.
RECURSIVE RotateLoop(_, _)
RotateLoop(ship, fuel) ==
    LET r == update_positions(ship, ship.start_pos)
    IN  IF r.ok THEN [ship |-> r.ship, ends |-> TRUE, left |-> fuel]
        ELSE IF fuel = 0 THEN [ship |-> ship, ends |-> FALSE, left |-> fuel]
        ELSE RotateLoop([ship EXCEPT !.rotation = rotate_clockwise(ship.rotation)],
                        fuel - 1)

\* Ship.rotate(): the ship afterwards, whether the call returns at all, and
\* the number of times it has advanced the orientation
ShipRotate(ship) ==
    LET r == RotateLoop([ship EXCEPT !.rotation = rotate_clockwise(ship.rotation)], 4)
    IN  [ship |-> r.ship, ends |-> r.ends, advances |-> 1 + (4 - r.left)]

\* Python's all(hits)
AllHits(hits) == \A k \in 1..Len(hits) : hits[k]

\* A check_hit that sets the damage flag whether the call is a missile or not
ShipCheckHitMarks(ship, hit_pos, is_missile) ==
    LET matches == {k \in 1..Len(ship.positions) : ship.positions[k] = hit_pos}
    IN  IF matches = {} THEN [ship |-> ship, hit |-> HitMiss(hit_pos)]
        ELSE LET i == CHOOSE k \in matches : \A j \in matches : k <= j
                 ship2 == [ship EXCEPT !.hits[i] = TRUE]
             IN  IF AllHits(ship2.hits)
                 THEN [ship |-> ship2,
                       hit |-> HitSunk(hit_pos, ship.ship_type, ship.positions)]
                 ELSE [ship |-> ship2, hit |-> HitHit(hit_pos)]

\* A check_hit that reports Sunk as soon as any damage flag is set
ShipCheckHitAny(ship, hit_pos, is_missile) ==
    LET matches == {k \in 1..Len(ship.positions) : ship.positions[k] = hit_pos}
    IN  IF matches = {} THEN [ship |-> ship, hit |-> HitMiss(hit_pos)]
        ELSE LET i == CHOOSE k \in matches : \A j \in matches : k <= j
                 ship2 == [ship EXCEPT !.hits[i] = is_missile]
             IN  IF is_missile
                 THEN [ship |-> ship2,
                       hit |-> HitSunk(hit_pos, ship.ship_type, ship.positions)]
                 ELSE [ship |-> ship2, hit |-> HitHit(hit_pos)]

\* Ship.check_hit(hit_pos, is_missile): the ship afterwards and the Hit returned.
\* The first index whose position matches decides.
ShipCheckHit(ship, hit_pos, is_missile) ==
    LET matches == {k \in 1..Len(ship.positions) : ship.positions[k] = hit_pos}
    IN  IF matches = {} THEN [ship |-> ship, hit |-> HitMiss(hit_pos)]
        ELSE LET i == CHOOSE k \in matches : \A j \in matches : k <= j
                 hits2 == [ship.hits EXCEPT ![i] = is_missile]
                 ship2 == [ship EXCEPT !.hits = hits2]
             IN  IF is_missile /\ AllHits(hits2)
                 THEN [ship |-> ship2,
                       hit |-> HitSunk(hit_pos, ship.ship_type, ship.positions)]
                 ELSE [ship |-> ship2, hit |-> HitHit(hit_pos)]

(***************************************************************************)
(* Fleet: the list `ships`                                                 *)
(***************************************************************************)

\* Fleet.add_ship(ship)
FleetAddShip(ships, ship) == Append(ships, ship)

\* The for loop of Fleet.check_hit from ship number i on
RECURSIVE FleetCheckHitFrom(_, _, _, _)
FleetCheckHitFrom(ships, i, hit_pos, is_missile) ==
    IF i > Len(ships) THEN [ships |-> ships, hit |-> HitMiss(hit_pos)]
    ELSE LET r == ShipCheckHit(ships[i], hit_pos, is_missile)
             ships2 == [ships EXCEPT ![i] = r.ship]
         IN  IF r.hit.hit_type # "MISS" THEN [ships |-> ships2, hit |-> r.hit]
             ELSE FleetCheckHitFrom(ships2, i + 1, hit_pos, is_missile)

\* A check_hit that asks every ship and returns what the last occupying one
\* reports
FleetCheckHitLast(ships, hit_pos, is_missile) ==
    LET occ == {i \in 1..Len(ships) :
                   \E k \in 1..Len(ships[i].positions) : ships[i].positions[k] = hit_pos}
    IN  [ships |-> [i \in 1..Len(ships) |->
                       ShipCheckHit(ships[i], hit_pos, is_missile).ship],
         hit |-> IF occ = {} THEN HitMiss(hit_pos)
                 ELSE LET i == CHOOSE n \in occ : \A j \in occ : j <= n
                      IN  ShipCheckHit(ships[i], hit_pos, is_missile).hit]

\* Fleet.check_hit(hit_pos, is_missile): the ships afterwards and the Hit
FleetCheckHit(ships, hit_pos, is_missile) ==
    FleetCheckHitFrom(ships, 1, hit_pos, is_missile)

(***************************************************************************)
(* Manager: geometry                                                       *)
(***************************************************************************)

\* Python's round(n / d) for n >= 0, d > 0: to the nearest integer, a tie to
\* the even one
PyRound(n, d) ==
    LET q == n \div d
        r == n % d
    IN  IF 2 * r < d THEN q
        ELSE IF 2 * r > d THEN q + 1
        ELSE IF q % 2 = 0 THEN q ELSE q + 1

\* math.ceil(n / 2)
CeilHalf(n) == (n + 1) \div 2

\* Manager.__set_bounds for a window of scrheight x scrwidth
set_bounds(scrheight, scrwidth) ==
    LET window_center == <<PyRound(scrheight, 2), PyRound(scrwidth, 2)>>
        half_width == CeilHalf(gameboard_width)
        half_height == CeilHalf(gameboard_height)
        bounds_x == <<window_center[2] - half_width, window_center[2] + half_width>>
        bounds_y == <<window_center[1] - half_height, window_center[1] + half_height>>
    IN  [window_center |-> window_center,
         bounds_x |-> bounds_x,
         bounds_y |-> bounds_y,
         player_board_center |->
             <<window_center[1], window_center[2] - PyRound(gameboard_width, 4)>>,
         player_bounds_y |-> <<bounds_y[1], bounds_y[2]>>,
         player_bounds_x |-> <<bounds_x[1], window_center[2]>>,
         opponent_board_center |->
             <<window_center[1], window_center[2] + PyRound(gameboard_width, 4)>>,
         opponent_bounds_y |-> <<bounds_y[1], bounds_y[2]>>,
         opponent_bounds_x |-> <<window_center[2], bounds_x[2]>>]

(***************************************************************************)
(* AI strategies                                                           *)
(***************************************************************************)

\* class AIType: the values of --ai
AITypes == {"copycat", "copycat-random-missiles", "omniscient"}

\* Python's None where an object (a Ship, a list, a position, a Hit) is expected
None == << >>

\* The row built for one i in CopyCatWithRandomMissilesAI.initialize:
\* zip([i] * player_bounds_x[1], range(player_bounds_x[0] + 1, player_bounds_x[1]))
\* stops with the shorter of its two arguments
MovesRow(i, player_bounds_x) ==
    LET lo == player_bounds_x[1] + 1
        hi == player_bounds_x[2]
        range_len == IF hi > lo THEN hi - lo ELSE 0
        rep_len == IF hi > 0 THEN hi ELSE 0
        n == IF rep_len < range_len THEN rep_len ELSE range_len
    IN  [k \in 1..n |-> <<i, lo + k - 1>>]

\* chain.from_iterable over the rows i = from .. player_bounds_y[1] - 1
RECURSIVE MovesFrom(_, _, _)
MovesFrom(i, player_bounds_y, player_bounds_x) ==
    IF i >= player_bounds_y[2] THEN << >>
    ELSE MovesRow(i, player_bounds_x)
             \o MovesFrom(i + 1, player_bounds_y, player_bounds_x)

\* An initialize that leaves out the first row of the board
RandomInitializeShort(player_bounds_y, player_bounds_x) ==
    MovesFrom(player_bounds_y[1] + 2, player_bounds_y, player_bounds_x)

\* CopyCatWithRandomMissilesAI.initialize: possible_moves
RandomInitialize(player_bounds_y, player_bounds_x) ==
    MovesFrom(player_bounds_y[1] + 1, player_bounds_y, player_bounds_x)

\* An initialize that gives no AI any cell to fire at
AIInitializeEmpty(type, b) == << >>

\* AI.initialize of the AI type: possible_moves afterwards (only the
\* random-missiles AI has the attribute; the others keep the empty list here)
AIInitialize(type, b) ==
    IF type = "copycat-random-missiles"
    THEN RandomInitialize(b.player_bounds_y, b.player_bounds_x)
    ELSE << >>

\* A pop that returns the element and leaves it in the list
ListPopKeeps(list, move_idx) == list

\* list.pop(move_idx) for a Python index move_idx: the list afterwards
ListPop(list, move_idx) ==
    [k \in 1..(Len(list) - 1) |-> IF k <= move_idx THEN list[k] ELSE list[k + 1]]

\* CopyCatWithRandomMissilesAI.send_move with randint returning move_idx:
\* the move returned and possible_moves afterwards
RandomSendMove(moves, move_idx) ==
    [move |-> moves[move_idx + 1], possible_moves |-> ListPop(moves, move_idx)]

\* A place_ships that gives the AI a new, empty Fleet
AIPlaceShipsEmpty(manager_fleet) == << >>

\* place_ships of every AI: deepcopy(manager.fleet), a separate value
AIPlaceShips(manager_fleet) == manager_fleet

\* AI.get_move(move), and CopyCatAI.get_move after it has stored the move
AIGetMove(ships, move) == FleetCheckHit(ships, move, TRUE)

\* A CopyCatAI.get_move that stores only the first move
AIRememberFirst(type, last, move) ==
    IF type = "copycat" /\ last = None THEN move ELSE last

\* CopyCatAI.get_move: last_player_move afterwards (the other AIs have none)
AIRemember(type, last, move) == IF type = "copycat" THEN move ELSE last

(***************************************************************************)
(* Manager: placing ships                                                  *)
(***************************************************************************)

\* The for loop of Manager.__draw_ship(ship, check_overlap=True) from position
\* number k on: Fleet.check_hit(pos, False) probes every position of the ship
RECURSIVE DrawShipFrom(_, _, _, _)
DrawShipFrom(ships, positions, k, overlaps) ==
    IF k > Len(positions) THEN [ships |-> ships, overlaps |-> overlaps]
    ELSE LET r == FleetCheckHit(ships, positions[k], FALSE)
         IN  DrawShipFrom(r.ships, positions, k + 1,
                          overlaps \/ r.hit.hit_type # "MISS")

\* A __draw_ship that does not probe the fleet
draw_ship_blind(ships, ship) == [ships |-> ships, overlaps |-> FALSE]

\* Manager.__draw_ship(ship, check_overlap=True): the fleet's ships afterwards
\* and the value returned
draw_ship(ships, ship) == DrawShipFrom(ships, ship.positions, 1, FALSE)

\* The Ship that Manager.__place_ship_loop creates
NewShip(ship_type, b) ==
    ShipInit(ship_type, b.player_board_center, "RIGHT",
             b.player_bounds_y, b.player_bounds_x)

\* The keys Manager.__place_ship_loop reacts to, besides space
ArrowKeys == {"RIGHT", "LEFT", "UP", "DOWN"}
PlaceKeys == ArrowKeys \cup {"r"}

\* The branch of __place_ship_loop for a key other than space
KeyShip(ship, key) ==
    IF key = "r" THEN ShipRotate(ship)
    ELSE [ship |-> ShipMove(ship, key), ends |-> TRUE]

\* The number of the ship type in ShipTypes
TypeIndex(ship_type) == CHOOSE k \in 1..Len(ShipTypes) : ShipTypes[k] = ship_type

\* Manager.__place_ships up to the first getch of __place_ship_loop: the ship
\* being placed, the fleet's ships and `overlaps`
place_ships(b, ships) ==
    LET s == NewShip(ShipTypes[1], b)
        d == draw_ship(ships, s)
    IN  [ship |-> s, fleet |-> d.ships, overlaps |-> d.overlaps]

\* Manager.__place_ship_loop from one getch to the next (or to the return of
\* __place_ships) when getch returns `key`.
\* An arrow key or "r" moves or rotates the ship; a rotate() that never
\* returns (ends = FALSE) leaves the process in its loop for good.
\* Space with an overlap goes round the loop; without, the ship joins the
\* fleet and __place_ships goes on to the next ship type or, after the last,
\* to READY.
place_ship_loop(b, ships, cur, ov, key) ==
    IF key # " "
    THEN LET r == KeyShip(cur, key)
             d == draw_ship(ships, r.ship)
         IN  [ends |-> r.ends, ship |-> r.ship, fleet |-> d.ships,
              overlaps |-> d.overlaps, game_state |-> "SETUP"]
    ELSE IF ov
    THEN LET d == draw_ship(ships, cur)
         IN  [ends |-> TRUE, ship |-> cur, fleet |-> d.ships,
              overlaps |-> d.overlaps, game_state |-> "SETUP"]
    ELSE LET ships2 == FleetAddShip(ships, cur)
             n == TypeIndex(cur.ship_type)
         IN  IF n < Len(ShipTypes)
             THEN LET s == NewShip(ShipTypes[n + 1], b)
                      d == draw_ship(ships2, s)
                  IN  [ends |-> TRUE, ship |-> s, fleet |-> d.ships,
                       overlaps |-> d.overlaps, game_state |-> "SETUP"]
             ELSE [ends |-> TRUE, ship |-> None, fleet |-> ships2,
                   overlaps |-> FALSE, game_state |-> "READY"]

(***************************************************************************)
(* Manager: shooting                                                       *)
(***************************************************************************)

\* Manager.__fire_missile: "Offset the position to the players side"
OffsetToPlayer(b, target_pos) ==
    LET offset == b.opponent_board_center[2] - target_pos[2]
    IN  <<target_pos[1], b.player_board_center[2] - offset>>

\* Manager.__reveal_sunk_ship: "Offset the position to the opponents side"
OffsetToOpponent(b, hit_pos) ==
    LET offset == b.player_board_center[2] - hit_pos[2]
    IN  <<hit_pos[1], b.opponent_board_center[2] - offset>>

\* Python's None where a string is expected
NoneStr == "None"

\* A __get_previous_guess_result that finds nothing
get_previous_guess_result_none(log, target) == NoneStr

\* Manager.__get_previous_guess_result(target)
get_previous_guess_result(log, target) ==
    LET found == {i \in 1..Len(log) : log[i][1] = target}
    IN  IF found = {} THEN NoneStr
        ELSE log[CHOOSE i \in found : \A j \in found : i <= j][2].character

\* The inner loop of Manager.__reveal_sunk_ship for one position
RevealOne(log, offset_hit_pos, sunk_hit) ==
    LET found == {i \in 1..Len(log) : log[i][1] = offset_hit_pos}
    IN  IF found = {} THEN log
        ELSE [log EXCEPT ![CHOOSE i \in found : \A j \in found : i <= j] =
                             <<offset_hit_pos, sunk_hit>>]

\* Manager.__reveal_sunk_ship(hit) from ship position number k on
RECURSIVE RevealFrom(_, _, _, _)
RevealFrom(b, log, sunk_hit, k) ==
    IF k > Len(sunk_hit.ship_positions) THEN log
    ELSE RevealFrom(b,
                    RevealOne(log, OffsetToOpponent(b, sunk_hit.ship_positions[k]),
                              sunk_hit),
                    sunk_hit, k + 1)

\* Manager.__reveal_sunk_ship(hit)
reveal_sunk_ship(b, log, sunk_hit) == RevealFrom(b, log, sunk_hit, 1)

\* A __check_game_over that declares the win one ship early
check_game_over_early(state, opponent_left, player_left) ==
    IF opponent_left <= 1 THEN "PLAYER_WON"
    ELSE IF player_left = 0 THEN "OPPONENT_WON"
    ELSE state

\* Manager.__check_game_over: game_state afterwards
check_game_over(state, opponent_left, player_left) ==
    IF opponent_left = 0 THEN "PLAYER_WON"
    ELSE IF player_left = 0 THEN "OPPONENT_WON"
    ELSE state

\* A __fire_missile that counts a ship off on every shot that strikes one
fire_missile_counts_hits(b, ai_ships, log, opponent_left, player_left, state, target_pos) ==
    LET r == AIGetMove(ai_ships, OffsetToPlayer(b, target_pos))
        log1 == Append(log, <<target_pos, r.hit>>)
        sunk == r.hit.hit_type = "SUNK"
        left == IF r.hit.hit_type # "MISS" THEN opponent_left - 1 ELSE opponent_left
    IN  [ai_ships |-> r.ships,
         hit |-> r.hit,
         guesses |-> IF sunk THEN reveal_sunk_ship(b, log1, r.hit) ELSE log1,
         opponent_ships_left |-> left,
         game_state |-> IF sunk THEN check_game_over(state, left, player_left)
                        ELSE state]

\* Manager.__fire_missile(target_pos) in local mode, where player.send_move is
\* LocalPlayer.send_move, that is ai.get_move: the AI's ships, the guess log,
\* opponent_ships_left and game_state afterwards, and the Hit obtained
fire_missile(b, ai_ships, log, opponent_left, player_left, state, target_pos) ==
    LET r == AIGetMove(ai_ships, OffsetToPlayer(b, target_pos))
        log1 == Append(log, <<target_pos, r.hit>>)
        sunk == r.hit.hit_type = "SUNK"
        left == IF sunk THEN opponent_left - 1 ELSE opponent_left
    IN  [ai_ships |-> r.ships,
         hit |-> r.hit,
         guesses |-> IF sunk THEN reveal_sunk_ship(b, log1, r.hit) ELSE log1,
         opponent_ships_left |-> left,
         game_state |-> IF sunk THEN check_game_over(state, left, player_left)
                        ELSE state]

\* A __loop that goes on taking turns whatever the game state past READY
loop_no_end(state, turn) ==
    CASE state = "SETUP" -> "__place_ships"
      [] state = "READY" -> "__ready"
      [] OTHER -> IF turn THEN "__take_turn" ELSE "__opponents_turn"

\* Manager.__loop: the method it calls in game_state `state` when
\* player.players_turn is `turn`
loop(state, turn) ==
    CASE state = "SETUP" -> "__place_ships"
      [] state = "READY" -> "__ready"
      [] state = "PLAYING" -> IF turn THEN "__take_turn" ELSE "__opponents_turn"
      [] state \in {"PLAYER_WON", "OPPONENT_WON"} -> "__game_over"

\* players_turn as Manager.__take_turn leaves it after a shot
TurnAfterTakeTurn == FALSE

\* An __opponents_turn that does not hand the turn back
TurnKeptByOpponent == FALSE

\* players_turn as Manager.__opponents_turn leaves it
TurnAfterOpponentsTurn == TRUE

(***************************************************************************)
(* The inputs: the window, the keys pressed, the numbers randint draws     *)
(***************************************************************************)

\* The arrow and rotate keys pressed while placing the fleet, in all, when the
\* keys are free
MaxSetupKeys == 6
\* The shots for which the player passes over the nearest untried cell
MaxSkips == 1
\* The draws for which randint passes over the nearest untried cell
MaxAISkips == 0

\* The window size stdscr.getmaxyx() reports: the smallest __set_bounds accepts
ScrHeight == MIN_WINDOW_HEIGHT
ScrWidth == MIN_WINDOW_WIDTH

\* The bounds of that window
Window == set_bounds(ScrHeight, ScrWidth)

\* The elements of a sequence
Range(seq) == {seq[i] : i \in 1..Len(seq)}

\* The cells at Manhattan distance d of c (d arrow keys away), by row, then column
Ring(c, d) ==
    IF d = 0 THEN <<c>>
    ELSE [k \in 1..(4 * d) |->
            IF k = 1 THEN <<c[1] - d, c[2]>>
            ELSE IF k = 4 * d THEN <<c[1] + d, c[2]>>
            ELSE LET dr == 1 - d + ((k - 2) \div 2)
                     w == IF dr < 0 THEN d + dr ELSE d - dr
                 IN  IF (k - 2) % 2 = 0 THEN <<c[1] + dr, c[2] - w>>
                     ELSE <<c[1] + dr, c[2] + w>>]

\* The cells inside the rectangle, nearest to c first
RECURSIVE ScanFrom(_, _, _, _)
ScanFrom(c, bounds_y, bounds_x, d) ==
    IF d > (bounds_y[2] - bounds_y[1]) + (bounds_x[2] - bounds_x[1]) THEN << >>
    ELSE SelectSeq(Ring(c, d), LAMBDA p : pos_in_bounds(p, bounds_y, bounds_x))
             \o ScanFrom(c, bounds_y, bounds_x, d + 1)

\* The opponent's board as the cursor of __take_turn reaches it from
\* opponent_board_center, fewest arrow keys first
PlayerScan ==
    ScanFrom(Window.opponent_board_center, Window.opponent_bounds_y,
             Window.opponent_bounds_x, 0)

\* The player's board, nearest to player_board_center first
AIScan ==
    ScanFrom(Window.player_board_center, Window.player_bounds_y,
             Window.player_bounds_x, 0)

\* The first n cells of scan, from number i on, that are not in `tried`
FirstUntried(scan, tried, n, i) ==
    LET rest == SelectSeq(SubSeq(scan, i, Len(scan)), LAMBDA p : p \notin tried)
    IN  SubSeq(rest, 1, IF n < Len(rest) THEN n ELSE Len(rest))

\* The first n cells of scan, from number i on, that are in `untried`
FirstIn(scan, untried, n, i) ==
    LET rest == SelectSeq(SubSeq(scan, i, Len(scan)), LAMBDA p : p \in untried)
    IN  SubSeq(rest, 1, IF n < Len(rest) THEN n ELSE Len(rest))

\* The keys of two players placing their fleets; " " is space.  The first
\* keeps every ship horizontal, the second rotates four ships; both try to
\* confirm on an overlap.
ScriptA ==
    <<"UP", "RIGHT", " ",
      "UP", " ", "LEFT", "LEFT", " ",
      "UP", "UP", "LEFT", " ",
      " ",
      " ", "DOWN", "LEFT", "LEFT", " ">>
ScriptB ==
    <<"r", " ",
      "LEFT", "r", " ",
      " ", "RIGHT", "r", " ",
      "UP", "LEFT", "LEFT", " ",
      "RIGHT", "RIGHT", "UP", "UP", "r", " ">>
SetupScripts == {ScriptA, ScriptB}

(***************************************************************************)
(* The state of a local game (python battleship.py --local --ai ...)       *)
(***************************************************************************)

VARIABLES
    bounds,               \* what Manager.__set_bounds computed
    game_state,           \* Manager.game_state
    players_turn,         \* Player.players_turn
    fleet,                \* Manager.fleet.ships
    guesses,              \* Manager.guesses
    player_ships_left,    \* Manager.player_ships_left
    opponent_ships_left,  \* Manager.opponent_ships_left
    ship,                 \* the Ship of the running __place_ship_loop, or None
    overlaps,             \* `overlaps` of the running __place_ship_loop
    ai_type,              \* LocalPlayer.ai_type
    ai_fleet,             \* AI.fleet.ships, None before place_ships
    last_player_move,     \* CopyCatAI.last_player_move
    possible_moves,       \* CopyCatWithRandomMissilesAI.possible_moves
    hit,                  \* the Hit of the latest turn (`hit` of __fire_missile
                          \* and of __opponents_turn), None before the first
    shooter,              \* who fired it: "player" or "opponent" ("None" before)
    player_shots,         \* the calls of __fire_missile so far
    opponent_shots,       \* the calls of listen_for_move that returned so far
    crashed,              \* the exception that ended the process, or "None"
    script,               \* the keys the player will press while placing
    keys_left,            \* with free keys: the arrow and rotate keys left
    skips_left,           \* the skips the player may still make
    ai_skips_left,        \* the skips randint may still make
    returned,             \* an AI on its own: what send_move returned so far
    remote,               \* a remote game: the two processes
    inbox,                \* a remote game: the bytes on their way to each
    called,               \* a Ship on its own: the method called last
    plan                  \* the order in which the player fires: "nearest"
                          \* cells first or "ships_last" ("None": no shots)

vars == <<bounds, game_state, players_turn, fleet, guesses, player_ships_left,
          opponent_ships_left, ship, overlaps, ai_type, ai_fleet,
          last_player_move, possible_moves, hit, shooter, player_shots,
          opponent_shots, crashed, script, keys_left, skips_left, ai_skips_left,
          returned, remote, inbox, called, plan>>

\* Manager.__initialize, after LocalPlayer.__init__ and set_manager: all but
\* the bounds and the AI
InitGame ==
    /\ game_state = "SETUP"
    /\ guesses = << >>
    /\ fleet = << >>
    /\ player_ships_left = Len(ShipTypes)
    /\ opponent_ships_left = Len(ShipTypes)
    /\ players_turn = TRUE
    /\ ship = None
    /\ overlaps = FALSE
    /\ ai_fleet = None
    /\ last_player_move = None
    /\ hit = None
    /\ shooter = "None"
    /\ player_shots = 0
    /\ opponent_shots = 0
    /\ crashed = "None"
    /\ skips_left = MaxSkips
    /\ ai_skips_left = MaxAISkips

\* Manager.__initialize, after LocalPlayer.__init__ and set_manager
InitManager ==
    /\ bounds = Window
    /\ possible_moves = AIInitialize(ai_type, bounds)
    /\ InitGame
    /\ returned = << >>
    /\ remote = << >>
    /\ inbox = << >>
    /\ called = "None"

Init ==
    /\ ai_type \in AITypes
    /\ script \in SetupScripts
    /\ keys_left = 0
    /\ plan = "nearest"
    /\ InitManager

otherVars == <<returned, remote, inbox, called, plan>>

envVars == <<script, keys_left>>
aiVars == <<ai_type, ai_fleet, last_player_move, possible_moves, ai_skips_left>>
playVars == <<players_turn, guesses, player_ships_left, opponent_ships_left, hit,
              shooter, player_shots, opponent_shots, crashed, skips_left>>

\* Manager.__place_ships up to the first getch of __place_ship_loop
PlaceShips ==
    /\ loop(game_state, players_turn) = "__place_ships" /\ crashed = "None"
    /\ ship = None
    /\ LET r == place_ships(bounds, fleet)
       IN  /\ ship' = r.ship
           /\ fleet' = r.fleet
           /\ overlaps' = r.overlaps
    /\ UNCHANGED <<bounds, game_state>>
    /\ UNCHANGED envVars /\ UNCHANGED aiVars /\ UNCHANGED playVars
    /\ UNCHANGED otherVars

\* Manager.__place_ship_loop from one getch to the next when getch returns `key`
PlaceShipLoop(key) ==
    /\ loop(game_state, players_turn) = "__place_ships" /\ crashed = "None"
    /\ ship # None
    /\ LET r == place_ship_loop(bounds, fleet, ship, overlaps, key)
       IN  /\ r.ends
           /\ ship' = r.ship
           /\ fleet' = r.fleet
           /\ overlaps' = r.overlaps
           /\ game_state' = r.game_state
    /\ UNCHANGED bounds
    /\ UNCHANGED aiVars /\ UNCHANGED playVars
    /\ UNCHANGED otherVars

\* The player presses the next key of the script
PlaceShipKey ==
    /\ script # << >>
    /\ PlaceShipLoop(Head(script))
    /\ script' = Tail(script)
    /\ UNCHANGED keys_left

\* Manager.__ready with LocalPlayer.ready
Ready ==
    /\ loop(game_state, players_turn) = "__ready" /\ crashed = "None"
    /\ ai_fleet' = AIPlaceShips(fleet)
    /\ game_state' = "PLAYING"
    /\ UNCHANGED <<bounds, fleet, ship, overlaps, ai_type,
                   last_player_move, possible_moves, ai_skips_left>>
    /\ UNCHANGED envVars /\ UNCHANGED playVars
    /\ UNCHANGED otherVars

\* The nearest cell the player has not fired at and, while a skip is left,
\* the one after it
PlayerTargets ==
    LET tried == {guesses[i][1] : i \in 1..Len(guesses)}
    IN  FirstUntried(PlayerScan, tried, IF skips_left > 0 THEN 2 ELSE 1, 1)

\* The cells on which the player presses space this turn: the arrow keys take
\* the cursor from opponent_board_center to any cell inside the opponent's
\* board (a key that would leave the board is undone); here the player
\* presses space where the cursor starts, on the cell fired at last, or on
\* one of PlayerTargets
PlayerSpaces ==
    Range(PlayerTargets) \cup {bounds.opponent_board_center}
        \cup (IF guesses = << >> THEN {} ELSE {guesses[Len(guesses)][1]})

\* Manager.__take_turn from one space to the next: space on a cell with a
\* previous guess result goes round the loop, space elsewhere fires; `skips`
\* is the number of skips the player has left after a shot
TakeTurnAt(target_pos, skips) ==
    /\ loop(game_state, players_turn) = "__take_turn" /\ crashed = "None"
    /\ pos_in_bounds(target_pos, bounds.opponent_bounds_y, bounds.opponent_bounds_x)
    /\ IF get_previous_guess_result(guesses, target_pos) # NoneStr
       THEN UNCHANGED vars
       ELSE /\ LET f == fire_missile(bounds, ai_fleet, guesses, opponent_ships_left,
                                     player_ships_left, game_state, target_pos)
               IN  /\ ai_fleet' = f.ai_ships
                   /\ last_player_move' =
                          AIRemember(ai_type, last_player_move,
                                     OffsetToPlayer(bounds, target_pos))
                   /\ guesses' = f.guesses
                   /\ opponent_ships_left' = f.opponent_ships_left
                   /\ game_state' = f.game_state
                   /\ hit' = f.hit
            /\ shooter' = "player"
            /\ player_shots' = player_shots + 1
            /\ players_turn' = TurnAfterTakeTurn
            /\ skips_left' = skips
            /\ UNCHANGED <<bounds, fleet, ship, overlaps, ai_type, possible_moves,
                           ai_skips_left, player_ships_left, opponent_shots,
                           crashed>>
            /\ UNCHANGED envVars /\ UNCHANGED otherVars

\* Manager.__take_turn, a shot at a cell other than the nearest untried one
\* using up a skip
TakeTurn(target_pos) ==
    TakeTurnAt(target_pos,
               IF target_pos # PlayerTargets[1] THEN skips_left - 1 ELSE skips_left)

\* The cells the random-missiles AI may draw this turn: the nearest untried
\* cell or, for a skip, the one after it
AITargets ==
    LET untried == Range(possible_moves)
    IN  FirstIn(AIScan, untried, IF ai_skips_left > 0 THEN 2 ELSE 1, 1)

\* The numbers randint(0, len(possible_moves) - 1) returns here: the indices
\* of those cells
AIDraws ==
    IF ai_type # "copycat-random-missiles" THEN {0}
    ELSE LET targets == Range(AITargets)
         IN  {i \in 0..(Len(possible_moves) - 1) : possible_moves[i + 1] \in targets}

\* LocalPlayer.listen_for_move for the copycat and the random-missiles AI,
\* randint returning move_idx: ai.send_move(), then manager.fleet.check_hit
listen_for_move(type, ships, last, moves, move_idx) ==
    IF type = "copycat"
    THEN LET r == FleetCheckHit(ships, last, TRUE)
         IN  [ships |-> r.ships, hit |-> r.hit, possible_moves |-> moves]
    ELSE LET m == RandomSendMove(moves, move_idx)
             r == FleetCheckHit(ships, m.move, TRUE)
         IN  [ships |-> r.ships, hit |-> r.hit, possible_moves |-> m.possible_moves]

\* Manager.__opponents_turn with the copycat or the random-missiles AI;
\* `skips` is the number of skips randint has left afterwards
OpponentsTurnAt(move_idx, skips) ==
    /\ loop(game_state, players_turn) = "__opponents_turn" /\ crashed = "None"
    /\ \/ ai_type = "copycat"
       \/ ai_type = "copycat-random-missiles" /\ possible_moves # << >>
    /\ LET l == listen_for_move(ai_type, fleet, last_player_move, possible_moves,
                                move_idx)
       IN  /\ fleet' = l.ships
           /\ possible_moves' = l.possible_moves
           /\ hit' = l.hit
           /\ game_state' =
                  IF l.hit.hit_type = "SUNK"
                  THEN check_game_over(game_state, opponent_ships_left,
                                       player_ships_left)
                  ELSE game_state
    /\ ai_skips_left' = skips
    /\ shooter' = "opponent"
    /\ opponent_shots' = opponent_shots + 1
    /\ players_turn' = TurnAfterOpponentsTurn
    /\ UNCHANGED <<bounds, guesses, player_ships_left, opponent_ships_left, ship,
                   overlaps, ai_type, ai_fleet, last_player_move, player_shots,
                   crashed, skips_left>>
    /\ UNCHANGED envVars /\ UNCHANGED otherVars

\* Manager.__opponents_turn, a draw other than the nearest untried cell using
\* up a skip
OpponentsTurn(move_idx) ==
    OpponentsTurnAt(move_idx,
                    IF ai_type = "copycat-random-missiles"
                       /\ possible_moves[move_idx + 1] # AITargets[1]
                    THEN ai_skips_left - 1
                    ELSE ai_skips_left)

\* Manager.__opponents_turn when the AI cannot produce a move: randint(0, -1)
\* raises ValueError on an empty possible_moves; OmniscientAI.send_move returns
\* None, Fleet.check_hit(None) is a Miss with target None, and
\* hit.target_position[0] raises TypeError.  Nothing catches either.
OpponentsTurnRaises ==
    /\ loop(game_state, players_turn) = "__opponents_turn" /\ crashed = "None"
    /\ IF ai_type = "omniscient"
       THEN crashed' = "TypeError" /\ hit' = HitMiss(None)
       ELSE /\ ai_type = "copycat-random-missiles"
            /\ possible_moves = << >>
            /\ crashed' = "ValueError"
            /\ UNCHANGED hit
    /\ UNCHANGED <<bounds, game_state, players_turn, fleet, guesses,
                   player_ships_left, opponent_ships_left, ship, overlaps,
                   shooter, player_shots, opponent_shots, skips_left>>
    /\ UNCHANGED envVars /\ UNCHANGED aiVars /\ UNCHANGED otherVars

\* Manager.__game_over: show the status, read a key
GameOver ==
    /\ loop(game_state, players_turn) = "__game_over" /\ crashed = "None"
    /\ UNCHANGED vars

Next ==
    \/ PlaceShips
    \/ PlaceShipKey
    \/ Ready
    \/ \E target_pos \in PlayerSpaces : TakeTurn(target_pos)
    \/ \E move_idx \in AIDraws : OpponentsTurn(move_idx)
    \/ OpponentsTurnRaises
    \/ GameOver

Spec == Init /\ [][Next]_vars

(***************************************************************************)
(* A local game against the random-missiles AI in which the player finds   *)
(* the ships last                                                          *)
(***************************************************************************)

InitLong ==
    /\ ai_type = "copycat-random-missiles"
    /\ script \in SetupScripts
    /\ keys_left = 0
    /\ plan = "ships_last"
    /\ InitManager

\* The cells of the opponent's board in the order in which the player fires
\* at them: the cells that hold no ship of the AI, nearest first, then the
\* cells that do
LongOrder ==
    LET holds(p) == \E i \in 1..Len(ai_fleet) :
                        OffsetToPlayer(bounds, p) \in Range(ai_fleet[i].positions)
    IN  SelectSeq(PlayerScan, LAMBDA p : ~holds(p))
            \o SelectSeq(PlayerScan, LAMBDA p : holds(p))

\* The cell the player fires at with shot number player_shots + 1
LongTarget ==
    IF player_shots < Len(PlayerScan) THEN LongOrder[player_shots + 1]
    ELSE LongOrder[1]

\* The number randint returns: the index of the nearest untried cell
LongDraws ==
    LET targets == AITargets
    IN  {i \in 0..(Len(possible_moves) - 1) : possible_moves[i + 1] = targets[1]}

NextLong ==
    \/ PlaceShips
    \/ PlaceShipKey
    \/ Ready
    \/ TakeTurnAt(LongTarget, skips_left)
    \/ \E move_idx \in LongDraws : OpponentsTurn(move_idx)
    \/ GameOver

SpecLong == InitLong /\ [][NextLong]_vars

(***************************************************************************)
(* A local game against the copycat or the random-missiles AI in which the *)
(* player, when it is their turn, fires at a new cell in the end           *)
(***************************************************************************)

LiveAITypes == {"copycat", "copycat-random-missiles"}
Plans == {"nearest", "ships_last"}

InitLive ==
    /\ ai_type \in LiveAITypes
    /\ script \in SetupScripts
    /\ keys_left = 0
    /\ plan \in Plans
    /\ InitManager

\* The player presses space on a cell of PlayerSpaces, fired at before or not
NearestTurn ==
    /\ plan = "nearest"
    /\ \E target_pos \in PlayerSpaces : TakeTurn(target_pos)

\* The player presses space on the cell they keep for last
ShipsLastTurn ==
    /\ plan = "ships_last"
    /\ TakeTurnAt(LongTarget, skips_left)

\* __opponents_turn, randint returning 0 (the copycat AI draws no number)
AITurn == OpponentsTurnAt(0, ai_skips_left)

\* __take_turn can end in __fire_missile: it is the player's turn and a cell
\* of the opponent's board has no previous guess result
CanFire ==
    /\ loop(game_state, players_turn) = "__take_turn" /\ crashed = "None"
    /\ Len(guesses) < Len(PlayerScan)

\* The step of __take_turn that fires: a shot at a cell not fired at before
FreshShot == CanFire /\ player_shots' = player_shots + 1

\* listen_for_move can return: it is the AI's turn and the AI has a move
CanMove ==
    /\ loop(game_state, players_turn) = "__opponents_turn" /\ crashed = "None"
    /\ ai_type = "copycat" \/ possible_moves # << >>

\* The step of __opponents_turn in which listen_for_move returns
AIMove == CanMove /\ opponent_shots' = opponent_shots + 1

NextLive ==
    \/ PlaceShips
    \/ PlaceShipKey
    \/ Ready
    \/ NearestTurn
    \/ ShipsLastTurn
    \/ AITurn
    \/ GameOver

\* The player, on their turn, fires at a new cell in the end; the AI's move is
\* a call that returns
SpecLive ==
    /\ InitLive /\ [][NextLive]_vars
    /\ WF_player_shots(FreshShot)
    /\ WF_opponent_shots(AIMove)

(***************************************************************************)
(* Placing the fleet with free keys                                        *)
(***************************************************************************)

InitSetup ==
    /\ ai_type = "copycat"
    /\ script = << >>
    /\ keys_left = MaxSetupKeys
    /\ plan = "None"
    /\ InitManager

\* The keys the player chooses from here: space, r, and every arrow but RIGHT
\* (the ship starts on the board's centre, facing RIGHT)
FreeKeys == (PlaceKeys \ {"RIGHT"}) \cup {" "}

\* The player presses any of these keys
PlaceShipFreeKey(key) ==
    /\ key # " " => keys_left > 0
    /\ PlaceShipLoop(key)
    /\ keys_left' = IF key = " " THEN keys_left ELSE keys_left - 1
    /\ UNCHANGED script

NextSetup ==
    \/ PlaceShips
    \/ \E key \in FreeKeys : PlaceShipFreeKey(key)
    \/ Ready

SpecSetup == InitSetup /\ [][NextSetup]_vars

(***************************************************************************)
(* Placing the fleet towards the lower edge of the board                   *)
(***************************************************************************)

\* The keys other than space the player may press
MaxEdgeKeys == 10

InitEdge ==
    /\ ai_type = "copycat"
    /\ script = << >>
    /\ keys_left = MaxEdgeKeys
    /\ plan = "None"
    /\ InitManager

\* The keys the player chooses from here
EdgeKeys == {"DOWN", "r", " "}

NextEdge ==
    \/ PlaceShips
    \/ \E key \in EdgeKeys : PlaceShipFreeKey(key)
    \/ Ready

SpecEdge == InitEdge /\ [][NextEdge]_vars

(***************************************************************************)
(* A CopyCatWithRandomMissilesAI on its own, its manager's player board    *)
(* drawn from small rectangles                                             *)
(***************************************************************************)

\* The rows inside the player's board
MaxAIRows == 2
\* The columns inside it, and where the board starts on the screen
AICols == {1, 2}
AIOrigins == {0, 1}

InitAI ==
    /\ \E y \in AIOrigins, x \in AIOrigins, h \in 1..MaxAIRows, w \in AICols :
           bounds = [player_bounds_y |-> <<y, y + h + 1>>,
                     player_bounds_x |-> <<x, x + w + 1>>]
    /\ ai_type = "copycat-random-missiles"
    /\ possible_moves = AIInitialize(ai_type, bounds)
    /\ InitGame
    /\ script = << >>
    /\ keys_left = 0
    /\ returned = << >>
    /\ remote = << >>
    /\ inbox = << >>
    /\ called = "None"
    /\ plan = "None"

\* CopyCatWithRandomMissilesAI.send_move, randint returning move_idx
AISendMove(move_idx) ==
    /\ crashed = "None"
    /\ possible_moves # << >>
    /\ LET m == RandomSendMove(possible_moves, move_idx)
       IN  /\ possible_moves' = m.possible_moves
           /\ returned' = Append(returned, m.move)
    /\ UNCHANGED <<bounds, game_state, fleet, ship, overlaps, ai_type, ai_fleet,
                   last_player_move, ai_skips_left, remote, inbox, called, plan>>
    /\ UNCHANGED envVars /\ UNCHANGED playVars

\* CopyCatWithRandomMissilesAI.send_move on an empty possible_moves:
\* randint(0, -1) raises ValueError
AISendMoveRaises ==
    /\ crashed = "None"
    /\ possible_moves = << >>
    /\ crashed' = "ValueError"
    /\ UNCHANGED <<bounds, game_state, players_turn, fleet, guesses,
                   player_ships_left, opponent_ships_left, ship, overlaps,
                   hit, shooter, player_shots, opponent_shots, skips_left>>
    /\ UNCHANGED envVars /\ UNCHANGED aiVars /\ UNCHANGED otherVars

NextAI ==
    \/ \E move_idx \in 0..(Len(possible_moves) - 1) : AISendMove(move_idx)
    \/ AISendMoveRaises

SpecAI == InitAI /\ [][NextAI]_vars

\* The cells strictly inside the player's board
Interior ==
    {p \in (bounds.player_bounds_y[1]..bounds.player_bounds_y[2])
               \X (bounds.player_bounds_x[1]..bounds.player_bounds_x[2]) :
        pos_in_bounds(p, bounds.player_bounds_y, bounds.player_bounds_x)}

\* The cells strictly inside the player's board of the window
WindowInterior ==
    {p \in ((Window.player_bounds_y[1] + 1)..(Window.player_bounds_y[2] - 1))
               \X ((Window.player_bounds_x[1] + 1)..(Window.player_bounds_x[2] - 1)) : TRUE}

\* possible_moves after initialize on the board of the window
WindowMoves == RandomInitialize(Window.player_bounds_y, Window.player_bounds_x)

\* C10: the random-missiles AI never returns a cell twice: the cells returned
\* so far are pairwise distinct cells inside the player's board, the untried
\* list holds exactly the other cells inside it, each once, and after as many
\* calls as there are cells inside the board every one of them has been
\* returned and the untried list is empty.  On the board of the window the
\* list starts with every cell inside the board, each once.
C10_NoRepeat ==
    /\ Range(WindowMoves) = WindowInterior
    /\ Len(WindowMoves) = Cardinality(WindowInterior)
    /\ \A i, j \in 1..Len(returned) : i # j => returned[i] # returned[j]
    /\ \A i \in 1..Len(returned) :
           pos_in_bounds(returned[i], bounds.player_bounds_y, bounds.player_bounds_x)
    /\ Range(possible_moves) = Interior \ Range(returned)
    /\ Len(possible_moves) + Len(returned) = Cardinality(Interior)
    /\ Len(returned) = Cardinality(Interior) =>
           (possible_moves = << >> /\ Range(returned) = Interior)

C10_Witness ==
    /\ Cardinality(Interior) = 4
    /\ Len(returned) = 4
    /\ possible_moves = << >>
    /\ returned[1][1] > returned[4][1]
    /\ returned[2][2] > returned[3][2]

(***************************************************************************)
(* A Fleet on its own: ships added with add_ship wherever they are, then   *)
(* check_hit called on it                                                  *)
(***************************************************************************)

\* The ships of the fleet
MaxFleetShips == 2
\* The rectangle of its ships: 2 rows of 2 cells inside
FleetBounds == [player_bounds_y |-> <<0, 3>>, player_bounds_x |-> <<0, 3>>]
\* The cells inside it
FleetCells == {<<1, 1>>, <<1, 2>>, <<2, 1>>, <<2, 2>>}
\* The ships added: patrol boats; one that does not fit where it is made has
\* no positions
FleetShips ==
    {ShipInit("P", start_pos, rotation, FleetBounds.player_bounds_y,
              FleetBounds.player_bounds_x) :
        start_pos \in FleetCells, rotation \in {"RIGHT", "DOWN"}}

InitFleet ==
    /\ bounds = FleetBounds
    /\ \E n \in 1..MaxFleetShips : fleet \in [1..n -> FleetShips]
    /\ hit = None
    /\ game_state = "SETUP"
    /\ guesses = << >>
    /\ player_ships_left = Len(ShipTypes)
    /\ opponent_ships_left = Len(ShipTypes)
    /\ players_turn = TRUE
    /\ ship = None
    /\ overlaps = FALSE
    /\ ai_type = "None"
    /\ ai_fleet = None
    /\ last_player_move = None
    /\ possible_moves = << >>
    /\ shooter = "None"
    /\ player_shots = 0
    /\ opponent_shots = 0
    /\ crashed = "None"
    /\ script = << >>
    /\ keys_left = 0
    /\ skips_left = 0
    /\ ai_skips_left = 0
    /\ returned = << >>
    /\ remote = << >>
    /\ inbox = << >>
    /\ called = "None"
    /\ plan = "None"

\* All but the fleet, the ship and the latest Hit and result
restVars == <<bounds, game_state, players_turn, guesses, player_ships_left,
              opponent_ships_left, overlaps, ai_type, ai_fleet,
              last_player_move, possible_moves, shooter, player_shots,
              opponent_shots, script, keys_left, skips_left, ai_skips_left,
              remote, inbox, plan>>

\* Fleet.check_hit(hit_pos, is_missile)
FleetCheck(hit_pos, is_missile) ==
    /\ LET r == FleetCheckHit(fleet, hit_pos, is_missile)
       IN  /\ fleet' = r.ships
           /\ hit' = r.hit
    /\ UNCHANGED <<ship, crashed, returned, called>> /\ UNCHANGED restVars

NextFleet ==
    \E hit_pos \in FleetCells \cup {<<0, 0>>}, is_missile \in BOOLEAN :
        FleetCheck(hit_pos, is_missile)

SpecFleet == InitFleet /\ [][NextFleet]_vars

\* The ships of `ships` that occupy pos
Occupying(ships, pos) ==
    {i \in 1..Len(ships) : pos \in {ships[i].positions[k] : k \in 1..Len(ships[i].positions)}}

\* C12: Fleet.check_hit returns Miss exactly when no ship of the fleet
\* occupies the position, and then changes no ship; otherwise it returns what
\* the first occupying ship in insertion order reports, and changes that ship
\* only.
C12_FirstShipWins ==
    \A hit_pos \in FleetCells \cup {<<0, 0>>}, is_missile \in BOOLEAN :
        LET r == FleetCheckHit(fleet, hit_pos, is_missile)
            occ == Occupying(fleet, hit_pos)
        IN  /\ r.hit.hit_type = "MISS" <=> occ = {}
            /\ occ = {} => (r.hit = HitMiss(hit_pos) /\ r.ships = fleet)
            /\ occ # {} =>
                   LET i == CHOOSE n \in occ : \A j \in occ : n <= j
                       one == ShipCheckHit(fleet[i], hit_pos, is_missile)
                   IN  /\ r.hit = one.hit
                       /\ r.ships = [fleet EXCEPT ![i] = one.ship]

\* a missile at a cell two ships occupy has damaged the first and not the second
C12_Witness ==
    /\ hit # None
    /\ hit.hit_type = "HIT"
    /\ \E i, j \in 1..Len(fleet) :
           /\ i < j
           /\ Occupying(fleet, hit.target_position) = {i, j}
           /\ \E k \in 1..2 : fleet[i].positions[k] = hit.target_position /\ fleet[i].hits[k]
           /\ \A k \in 1..2 : ~fleet[j].hits[k]

(***************************************************************************)
(* A Ship on its own: made anywhere, then moved, rotated and shot at       *)
(***************************************************************************)

\* The rows and the columns inside the ship's rectangle, at most
MaxShipRows == 2
MaxShipCols == 3

\* The cells inside the rectangle, and one outside
ShipCellsOf(b) ==
    ((b.player_bounds_y[1] + 1)..(b.player_bounds_y[2] - 1))
        \X ((b.player_bounds_x[1] + 1)..(b.player_bounds_x[2] - 1))
ShipTargets(b) == ShipCellsOf(b) \cup {<<0, 0>>}

\* Ship(ship_type, start_pos, rotation, bounds_y, bounds_x) for any type, any
\* orientation and a start inside the rectangle or at its corner
InitShip ==
    /\ \E h \in 1..MaxShipRows, w \in 1..MaxShipCols :
           bounds = [player_bounds_y |-> <<0, h + 1>>, player_bounds_x |-> <<0, w + 1>>]
    /\ \E k \in 1..Len(ShipTypes), start_pos \in ShipTargets(bounds),
          rotation \in Direction :
           ship = ShipInit(ShipTypes[k], start_pos, rotation,
                           bounds.player_bounds_y, bounds.player_bounds_x)
    /\ called = "None"
    /\ hit = None
    /\ crashed = "None"
    /\ fleet = << >>
    /\ game_state = "SETUP"
    /\ guesses = << >>
    /\ player_ships_left = Len(ShipTypes)
    /\ opponent_ships_left = Len(ShipTypes)
    /\ players_turn = TRUE
    /\ overlaps = FALSE
    /\ ai_type = "None"
    /\ ai_fleet = None
    /\ last_player_move = None
    /\ possible_moves = << >>
    /\ shooter = "None"
    /\ player_shots = 0
    /\ opponent_shots = 0
    /\ script = << >>
    /\ keys_left = 0
    /\ skips_left = 0
    /\ ai_skips_left = 0
    /\ returned = << >>
    /\ remote = << >>
    /\ inbox = << >>
    /\ plan = "None"

\* ship.move(direction); `hit` is what the latest call returned
ShipMoves(direction) ==
    /\ crashed = "None"
    /\ ship' = ShipMove(ship, direction)
    /\ called' = "move"
    /\ hit' = None
    /\ UNCHANGED <<fleet, crashed, returned>> /\ UNCHANGED restVars

\* ship.rotate(): it returns, or the caller waits for it for good
ShipRotates ==
    /\ crashed = "None"
    /\ LET r == ShipRotate(ship)
       IN  /\ ship' = r.ship
           /\ crashed' = IF r.ends THEN "None" ELSE "NoReturn"
    /\ called' = "rotate"
    /\ hit' = None
    /\ UNCHANGED <<fleet, returned>> /\ UNCHANGED restVars

\* ship.check_hit(hit_pos, is_missile)
ShipChecks(hit_pos, is_missile) ==
    /\ crashed = "None"
    /\ LET r == ShipCheckHit(ship, hit_pos, is_missile)
       IN  /\ ship' = r.ship
           /\ hit' = r.hit
    /\ called' = IF is_missile THEN "missile" ELSE "probe"
    /\ UNCHANGED <<fleet, crashed, returned>> /\ UNCHANGED restVars

NextShip ==
    \/ \E direction \in Direction : ShipMoves(direction)
    \/ ShipRotates
    \/ \E hit_pos \in ShipTargets(bounds), is_missile \in BOOLEAN :
           ShipChecks(hit_pos, is_missile)

SpecShip == InitShip /\ [][NextShip]_vars

\* C13: a missile call on a ship returns Sunk, with the ship's identifier and
\* its whole position sequence, exactly when it leaves every damage flag
\* true, Hit when it matched a cell and leaves a flag false, and Miss when it
\* matched none; so the call that sets the last false flag returns Sunk and
\* every matching call before it returned Hit.
C13_SunkOnLastFlag ==
    /\ called = "missile" =>
           /\ hit.hit_type = "SUNK" <=>
                  (AllHits(ship.hits) /\ hit.target_position \in Range(ship.positions))
           /\ hit.hit_type = "HIT" <=>
                  (~AllHits(ship.hits) /\ hit.target_position \in Range(ship.positions))
           /\ hit.hit_type = "SUNK" =>
                  /\ hit.character = ship.ship_type
                  /\ hit.ship_positions = ship.positions
                  /\ Len(hit.ship_positions) = ship.size
    /\ \A hit_pos \in ShipTargets(bounds) :
           LET r == ShipCheckHit(ship, hit_pos, TRUE)
               ks == {k \in 1..Len(ship.positions) : ship.positions[k] = hit_pos}
           IN  /\ ks = {} => (r.hit = HitMiss(hit_pos) /\ r.ship = ship)
               /\ ks # {} =>
                      /\ \A k \in 1..ship.size : r.ship.hits[k] = (ship.hits[k] \/ k \in ks)
                      /\ [r.ship EXCEPT !.hits = ship.hits] = ship
                      /\ r.hit = IF \A k \in 1..ship.size : ship.hits[k] \/ k \in ks
                                 THEN HitSunk(hit_pos, ship.ship_type, ship.positions)
                                 ELSE HitHit(hit_pos)

\* a destroyer sunk by its third missile
C13_Witness ==
    /\ called = "missile"
    /\ ship.size = 3
    /\ hit.hit_type = "SUNK"
    /\ hit.target_position = ship.positions[2]

\* The orientations in which the ship passes the bounds test where it starts
ValidOrientations(s) ==
    {d \in Direction :
        in_bounds(generate_positions(s.start_pos, d, s.size), s.bounds_y, s.bounds_x)}

\* ship.rotate() called n times: the ship afterwards and whether all calls return
RECURSIVE RotateTimes(_, _)
RotateTimes(s, n) ==
    IF n = 0 THEN [ship |-> s, ends |-> TRUE]
    ELSE LET r == ShipRotate(s)
         IN  IF r.ends THEN RotateTimes(r.ship, n - 1)
             ELSE [ship |-> s, ends |-> FALSE]

C15_ShipShape ==
    ship # None =>
        /\ Len(ship.positions) = ship.size
        /\ Len(ship.hits) = ship.size
        /\ ship.size = size_of(ship.ship_type)
        /\ ship.positions = generate_positions(ship.start_pos, ship.rotation, ship.size)
        /\ called = "None" => \A k \in 1..ship.size : ~ship.hits[k]

\* The cell next to pos in a direction
Shifted(pos, direction) ==
    CASE direction = "RIGHT" -> <<pos[1], pos[2] + 1>>
      [] direction = "LEFT" -> <<pos[1], pos[2] - 1>>
      [] direction = "UP" -> <<pos[1] - 1, pos[2]>>
      [] direction = "DOWN" -> <<pos[1] + 1, pos[2]>>

\* C16: move(direction) to a placement that fails the bounds test changes
\* nothing of the ship (start position, positions, orientation, damage flags)
\* and raises nothing; to a placement that passes, it shifts the start
\* position by one cell in the direction and regenerates the positions from
\* it, and changes nothing else.
C16_MoveOrNothing ==
    \A direction \in Direction :
        LET start_pos == Shifted(ship.start_pos, direction)
            positions == generate_positions(start_pos, ship.rotation, ship.size)
            moved == ShipMove(ship, direction)
        IN  IF in_bounds(positions, ship.bounds_y, ship.bounds_x)
            THEN moved = [ship EXCEPT !.start_pos = start_pos, !.positions = positions]
            ELSE moved = ship

\* a damaged ship, moved, that one direction would move and another would not
C16_Witness ==
    /\ called = "move"
    /\ ship.positions # << >>
    /\ \E k \in 1..ship.size : ship.hits[k]
    /\ \E direction \in Direction : ShipMove(ship, direction) = ship
    /\ \E direction \in Direction : ShipMove(ship, direction).start_pos # ship.start_pos

\* C17: rotate() tries each orientation once at most: a call on a ship that
\* no orientation places inside its rectangle returns (reporting the failure)
\* like every other call.
C17_RotateReturns ==
    called = "rotate" => crashed = "None"

(***************************************************************************)
(* A remote game: the host's and the client's process, each a Manager with *)
(* a Multiplayer player, and the connection between them                   *)
(***************************************************************************)

Sides == {"host", "client"}
Peer(s) == IF s = "host" THEN "client" ELSE "host"

\* "ready".encode(): the bytes of the token
ReadyMsg == <<"r", "e", "a", "d", "y">>

\* A ready loop that any message ends
ReadyDoneAny(rec_msg) == TRUE

\* Multiplayer.ready: the test that ends its loop
ReadyDone(rec_msg) == rec_msg = ReadyMsg

\* Multiplayer.send_move(pos): "move_%d_%d" % pos is a str, and socket.send
\* of a str raises TypeError before a byte is sent
MultiplayerSendMove(pos) == [raises |-> "TypeError", sent |-> << >>, returns |-> None]

\* Multiplayer.listen_for_move once recv has returned rec_msg: a str has no
\* attribute starstwith
MultiplayerListenForMove(rec_msg) == [raises |-> "AttributeError", returns |-> None]

\* Manager.__initialize of one process; Host.wait_for_opponent gives the host
\* the first turn, Client.connect_to_host gives the client none
InitSide(s, keys) ==
    [game_state |-> "SETUP",
     players_turn |-> (s = "host"),
     fleet |-> << >>,
     guesses |-> << >>,
     ship |-> None,
     overlaps |-> FALSE,
     script |-> keys,
     sent |-> 0,
     received |-> 0,
     call |-> "None",
     hit |-> None,
     crashed |-> "None"]

InitRemote ==
    /\ bounds = Window
    /\ ai_type = "None"
    /\ possible_moves = << >>
    /\ InitGame
    /\ script = << >>
    /\ keys_left = 0
    /\ returned = << >>
    /\ \E kh \in SetupScripts, kc \in SetupScripts :
           remote = [s \in Sides |-> InitSide(s, IF s = "host" THEN kh ELSE kc)]
    /\ inbox = [s \in Sides |-> << >>]
    /\ called = "None"
    /\ plan = "None"

localVars == <<bounds, game_state, players_turn, fleet, guesses, player_ships_left,
               opponent_ships_left, ship, overlaps, ai_type, ai_fleet,
               last_player_move, possible_moves, hit, shooter, player_shots,
               opponent_shots, crashed, script, keys_left, skips_left,
               ai_skips_left, returned, called, plan>>

Running(s) ==
    /\ remote[s].crashed = "None"

\* Manager.__place_ships of process s up to the first getch
RPlaceShips(s) ==
    /\ Running(s)
    /\ loop(remote[s].game_state, remote[s].players_turn) = "__place_ships"
    /\ remote[s].ship = None
    /\ LET r == place_ships(bounds, remote[s].fleet)
       IN  remote' = [remote EXCEPT ![s].ship = r.ship,
                                    ![s].fleet = r.fleet,
                                    ![s].overlaps = r.overlaps]
    /\ UNCHANGED inbox /\ UNCHANGED localVars

\* Manager.__place_ship_loop of process s for the next key of its script
RPlaceShipKey(s) ==
    /\ Running(s)
    /\ loop(remote[s].game_state, remote[s].players_turn) = "__place_ships"
    /\ remote[s].ship # None
    /\ remote[s].script # << >>
    /\ LET r == place_ship_loop(bounds, remote[s].fleet, remote[s].ship,
                                remote[s].overlaps, Head(remote[s].script))
       IN  /\ r.ends
           /\ remote' = [remote EXCEPT ![s].ship = r.ship,
                                       ![s].fleet = r.fleet,
                                       ![s].overlaps = r.overlaps,
                                       ![s].game_state = r.game_state,
                                       ![s].script = Tail(remote[s].script)]
    /\ UNCHANGED inbox /\ UNCHANGED localVars

\* Manager.__ready with Multiplayer.ready up to its first recv: the token is sent
RReadySend(s) ==
    /\ Running(s)
    /\ loop(remote[s].game_state, remote[s].players_turn) = "__ready"
    /\ remote[s].call # "ready"
    /\ inbox' = [inbox EXCEPT ![Peer(s)] = inbox[Peer(s)] \o ReadyMsg]
    /\ remote' = [remote EXCEPT ![s].sent = remote[s].sent + 1,
                                ![s].call = "ready"]
    /\ UNCHANGED localVars

\* The loop of Multiplayer.ready from one recv to the next, recv(1024)
\* returning the first n bytes on their way to s; when the loop ends,
\* Manager.__ready goes on to PLAYING.  A stream socket may return any
\* non-empty part of what was sent.
RReadyRecv(s, n) ==
    /\ Running(s)
    /\ loop(remote[s].game_state, remote[s].players_turn) = "__ready"
    /\ remote[s].call = "ready"
    /\ n \in 1..Len(inbox[s])
    /\ LET rec_msg == SubSeq(inbox[s], 1, n)
       IN  /\ inbox' = [inbox EXCEPT ![s] = SubSeq(inbox[s], n + 1, Len(inbox[s]))]
           /\ remote' = [remote EXCEPT
                  ![s].received = IF rec_msg = ReadyMsg THEN remote[s].received + 1
                                  ELSE remote[s].received,
                  ![s].game_state = IF ReadyDone(rec_msg) THEN "PLAYING"
                                    ELSE remote[s].game_state]
    /\ UNCHANGED localVars

\* Manager.__take_turn of process s ending with space on a cell not fired at:
\* __fire_missile calls Multiplayer.send_move, which raises; nothing catches it
RTakeTurn(s) ==
    /\ Running(s)
    /\ loop(remote[s].game_state, remote[s].players_turn) = "__take_turn"
    /\ LET target_pos == bounds.opponent_board_center
           r == MultiplayerSendMove(OffsetToPlayer(bounds, target_pos))
       IN  /\ get_previous_guess_result(remote[s].guesses, target_pos) = NoneStr
           /\ remote' = [remote EXCEPT ![s].call = "send_move",
                                       ![s].hit = r.returns,
                                       ![s].crashed = r.raises]
           /\ inbox' = [inbox EXCEPT ![Peer(s)] = inbox[Peer(s)] \o r.sent]
    /\ UNCHANGED localVars

\* Manager.__opponents_turn of process s: recv in Multiplayer.listen_for_move
\* returns bytes on their way to s or, once the peer's process has ended and
\* its socket is closed, the empty message; either way the call raises
ROpponentsTurn(s, n) ==
    /\ Running(s)
    /\ loop(remote[s].game_state, remote[s].players_turn) = "__opponents_turn"
    /\ IF inbox[s] # << >> THEN n \in 1..Len(inbox[s])
       ELSE n = 0 /\ remote[Peer(s)].crashed # "None"
    /\ LET r == MultiplayerListenForMove(SubSeq(inbox[s], 1, n))
       IN  remote' = [remote EXCEPT ![s].call = "listen_for_move",
                                    ![s].hit = r.returns,
                                    ![s].crashed = r.raises]
    /\ inbox' = [inbox EXCEPT ![s] = SubSeq(inbox[s], n + 1, Len(inbox[s]))]
    /\ UNCHANGED localVars

NextRemote ==
    \E s \in Sides :
        \/ RPlaceShips(s)
        \/ RPlaceShipKey(s)
        \/ RReadySend(s)
        \/ \E n \in 1..Len(ReadyMsg) : RReadyRecv(s, n)
        \/ RTakeTurn(s)
        \/ \E n \in 0..Len(ReadyMsg) : ROpponentsTurn(s, n)

SpecRemote == InitRemote /\ [][NextRemote]_vars

\* recv of process s in Multiplayer.ready returns
RRecv(s) == \E n \in 1..Len(ReadyMsg) : RReadyRecv(s, n)

\* A process that has placed its fleet goes on to Multiplayer.ready and sends
\* the token, and its recv returns when bytes are on their way to it
SpecRemoteFair ==
    /\ InitRemote /\ [][NextRemote]_vars
    /\ \A s \in Sides : WF_vars(RReadySend(s)) /\ WF_vars(RRecv(s))

\* C7: a process is in PLAYING only after it has sent the ready token once and
\* received it once, and then its peer has placed its fleet and sent its
\* token; no process sends or receives the token twice.
C7_ReadyHandshake ==
    \A s \in Sides :
        /\ remote[s].sent <= 1
        /\ remote[s].received <= 1
        /\ remote[s].game_state = "PLAYING" =>
               /\ remote[s].sent = 1
               /\ remote[s].received = 1
               /\ remote[Peer(s)].sent = 1
               /\ remote[Peer(s)].game_state \in {"READY", "PLAYING"}
               /\ Len(remote[Peer(s)].fleet) = Len(ShipTypes)

C7_Witness ==
    /\ remote # << >>
    /\ remote["client"].game_state = "PLAYING"
    /\ remote["host"].game_state = "READY"
    /\ remote["host"].call = "ready"

\* A Hit as the engine uses it: a type, and the position shot at as target
IsHit(h) ==
    /\ h # None
    /\ h.hit_type \in {"MISS", "HIT", "SUNK"}
    /\ h.target_position # None

\* C8: for the local and for the remote adapter, send_move and
\* listen_for_move return a Hit (Miss, Hit or Sunk, with the position shot at
\* as target): no call of either ends otherwise.
C8_AdaptersReturnHit ==
    /\ shooter # "None" => IsHit(hit)
    /\ remote # << >> =>
           \A s \in Sides :
               remote[s].call \in {"send_move", "listen_for_move"} =>
                   (remote[s].crashed = "None" /\ IsHit(remote[s].hit))

\* Process s has placed its fleet
Placed(s) == remote[s].game_state # "SETUP" /\ Len(remote[s].fleet) = Len(ShipTypes)

\* C22: once both processes have placed their fleets, both receive the ready
\* token and are in PLAYING in the end.
C22_HandshakeEnds ==
    (\A s \in Sides : Placed(s))
        ~> (\A s \in Sides : remote[s].received = 1 /\ remote[s].game_state = "PLAYING")

(***************************************************************************)
(* Properties of the local game                                            *)
(***************************************************************************)

\* Every damage flag of every ship of the fleet is set
FleetSunk(ships) == \A i \in 1..Len(ships) : AllHits(ships[i].hits)

\* The cells the ships occupy
ShipCells(s) == Range(s.positions)

Started == game_state \in {"PLAYING", "PLAYER_WON", "OPPONENT_WON"}

\* C1: the game state is PLAYER_WON exactly when a shot of the player has
\* sunk the last ship of the opponent: in PLAYER_WON opponent_ships_left is 0,
\* the latest shot is the player's and a Sunk, every ship of the AI's fleet is
\* sunk and the player's counter is not 0; and whenever opponent_ships_left
\* is 0 the game state is PLAYER_WON.
C1_PlayerWon ==
    /\ game_state = "PLAYER_WON" =>
           /\ opponent_ships_left = 0
           /\ player_ships_left > 0
           /\ shooter = "player"
           /\ hit.hit_type = "SUNK"
           /\ FleetSunk(ai_fleet)
    /\ opponent_ships_left = 0 => game_state = "PLAYER_WON"
    /\ (Started /\ FleetSunk(ai_fleet)) => game_state = "PLAYER_WON"

C1_Witness ==
    /\ game_state = "PLAYER_WON"
    /\ opponent_ships_left = 0
    /\ ai_type = "copycat-random-missiles"

\* C2: when the opponent's shots have sunk every ship of the player's fleet
\* while the opponent has ships left, player_ships_left is 0 and the game
\* state is OPPONENT_WON.
C2_OpponentWon ==
    (Started /\ FleetSunk(fleet) /\ opponent_ships_left > 0) =>
        (player_ships_left = 0 /\ game_state = "OPPONENT_WON")

\* C3: turns alternate, the player first: when it is the player's turn both
\* sides have fired equally often and the latest shot, if any, was the
\* opponent's; otherwise the player has fired once more and fired last.
C3_TurnsAlternate ==
    IF players_turn
    THEN /\ player_shots = opponent_shots
         /\ shooter = IF player_shots = 0 THEN "None" ELSE "opponent"
    ELSE /\ player_shots = opponent_shots + 1
         /\ shooter = "player"

C3_Witness ==
    /\ game_state = "PLAYING"
    /\ players_turn
    /\ opponent_shots >= 3

\* What a shot or a change of game state changes
gameVars == <<game_state, fleet, ai_fleet, guesses, player_ships_left,
              opponent_ships_left, player_shots, opponent_shots, hit, shooter,
              players_turn, possible_moves>>

\* C4: PLAYER_WON and OPPONENT_WON are terminal: from such a state no step
\* fires or applies a shot or changes game_state, a fleet, the guess log or a
\* ships-remaining counter.
C4_Terminal ==
    [][(game_state \in {"PLAYER_WON", "OPPONENT_WON"}) => (gameVars' = gameVars)]_vars

C4_Witness ==
    /\ game_state = "PLAYER_WON"
    /\ ~players_turn
    /\ ~FleetSunk(fleet)

\* C5: the fleet holds the first ship types in order, one ship each, on
\* pairwise disjoint cells; past SETUP it holds all 5.
C5_FleetPlaced ==
    /\ Len(fleet) <= Len(ShipTypes)
    /\ \A i \in 1..Len(fleet) : fleet[i].ship_type = ShipTypes[i]
    /\ \A i, j \in 1..Len(fleet) :
           i # j => ShipCells(fleet[i]) \cap ShipCells(fleet[j]) = {}
    /\ \A i \in 1..Len(fleet) : Cardinality(ShipCells(fleet[i])) = fleet[i].size
    /\ game_state # "SETUP" =>
           /\ Len(fleet) = 5
           /\ Cardinality({fleet[i].ship_type : i \in 1..Len(fleet)}) = 5

C5_Witness ==
    /\ game_state = "READY"
    /\ Len(fleet) = 5
    /\ \E i \in 1..Len(fleet) : fleet[i].rotation = "DOWN"
    /\ \E i \in 1..Len(fleet) : fleet[i].start_pos[2] # bounds.player_board_center[2]

\* C6: the guess log has one entry for every shot the player has fired and no
\* two entries with the same position.
C6_NoRepeatedGuess ==
    /\ Len(guesses) = player_shots
    /\ \A i, j \in 1..Len(guesses) : i # j => guesses[i][1] # guesses[j][1]

\* a Sunk has rewritten an earlier entry of the log
C6_Witness ==
    /\ Len(guesses) >= 2
    /\ \E i \in 1..(Len(guesses) - 1) :
           /\ guesses[i][2].hit_type = "SUNK"
           /\ OffsetToOpponent(bounds, guesses[i][2].target_position) # guesses[i][1]
    /\ player_shots >= 10

\* C9: against the CopyCat AI, the AI's n-th shot is at the position of the
\* player's n-th shot moved by the column offset between the two boards.
C9_CopyCat ==
    (ai_type = "copycat" /\ shooter = "opponent") =>
        /\ opponent_shots >= 1
        /\ opponent_shots <= Len(guesses)
        /\ hit.target_position =
               <<guesses[opponent_shots][1][1],
                 guesses[opponent_shots][1][2]
                     - (bounds.opponent_board_center[2]
                            - bounds.player_board_center[2])>>

C9_Witness ==
    /\ ai_type = "copycat"
    /\ shooter = "opponent"
    /\ opponent_shots >= 4
    /\ hit.hit_type = "SUNK"

\* Two fleets with the same ships, damage flags apart
SameShips(a, b) ==
    /\ Len(a) = Len(b)
    /\ \A i \in 1..Len(a) : [a[i] EXCEPT !.hits = b[i].hits] = b[i]

\* C11: the AI's fleet made at Ready is a copy of the player's fleet as it is
\* then (same types, positions and damage flags); afterwards a shot of the
\* player changes damage flags of the AI's fleet only and leaves the player's
\* fleet as it is, and a shot of the opponent changes damage flags of the
\* player's fleet only and leaves the AI's fleet as it is.
C11_IndependentCopy ==
    [][/\ (game_state = "READY" /\ game_state' = "PLAYING") =>
              (ai_fleet' = fleet /\ fleet' = fleet)
       /\ (player_shots' # player_shots) =>
              (fleet' = fleet /\ SameShips(ai_fleet', ai_fleet))
       /\ (opponent_shots' # opponent_shots) =>
              (ai_fleet' = ai_fleet /\ SameShips(fleet', fleet))]_vars

\* both fleets damaged, each on a cell where the other is not
C11_Witness ==
    /\ game_state = "PLAYING"
    /\ Len(ai_fleet) = Len(fleet)
    /\ \E i \in 1..Len(fleet) : \E k \in 1..fleet[i].size :
           fleet[i].hits[k] /\ ~ai_fleet[i].hits[k]
    /\ \E i \in 1..Len(fleet) : \E k \in 1..fleet[i].size :
           ai_fleet[i].hits[k] /\ ~fleet[i].hits[k]

\* pos lies strictly inside the rectangle
StrictlyInside(pos, bounds_y, bounds_x) ==
    /\ bounds_y[1] < pos[1] /\ pos[1] < bounds_y[2]
    /\ bounds_x[1] < pos[2] /\ pos[2] < bounds_x[2]

\* On the player's board of the window, for every ShipType, every start
\* position on the board or its border and every orientation: when in_bounds
\* is true of the generated positions, every one of them is strictly inside
EndpointsSound ==
    \A k \in 1..Len(ShipTypes), rotation \in Direction,
       start_pos \in (Window.player_bounds_y[1]..Window.player_bounds_y[2])
                        \X (Window.player_bounds_x[1]..Window.player_bounds_x[2]) :
        LET positions == generate_positions(start_pos, rotation, size_of(ShipTypes[k]))
        IN  in_bounds(positions, Window.player_bounds_y, Window.player_bounds_x) =>
                \A i \in 1..Len(positions) :
                    StrictlyInside(positions[i], Window.player_bounds_y,
                                   Window.player_bounds_x)

\* C18: testing the two ends is enough: whenever in_bounds is true, every
\* position of the ship is strictly inside the rectangle; and while the fleet
\* is placed, every cell of the ship being placed and of every ship of the
\* fleet is strictly inside the player's board.
C18_InsideBoard ==
    /\ EndpointsSound
    /\ ship # None =>
           /\ in_bounds(ship.positions, ship.bounds_y, ship.bounds_x)
           /\ \A k \in 1..Len(ship.positions) :
                  StrictlyInside(ship.positions[k], bounds.player_bounds_y,
                                 bounds.player_bounds_x)
    /\ \A i \in 1..Len(fleet) :
           /\ Len(fleet[i].positions) = fleet[i].size
           /\ \A k \in 1..Len(fleet[i].positions) :
                  StrictlyInside(fleet[i].positions[k], bounds.player_bounds_y,
                                 bounds.player_bounds_x)

\* a ship on the last row of the board: moving it down or turning it to face
\* DOWN would take it over the border
C18_Witness ==
    /\ game_state = "SETUP"
    /\ ship # None
    /\ ship.start_pos[1] = bounds.player_bounds_y[2] - 1
    /\ ship.rotation = "LEFT"

\* The number of the AI's ships whose damage flags are all true
AISunkShips == Cardinality({i \in 1..Len(ai_fleet) : AllHits(ai_fleet[i].hits)})

\* C19: opponent_ships_left is 5 minus the number of the AI's ships whose
\* damage flags are all true, and lies in 0..5.
C19_OpponentShipsLeft ==
    /\ opponent_ships_left = 5 - AISunkShips
    /\ opponent_ships_left \in 0..5

\* the game goes on with one AI ship sunk and another struck but afloat
C19_Witness ==
    /\ game_state = "PLAYING"
    /\ opponent_ships_left \in 1..4
    /\ AISunkShips = 5 - opponent_ships_left
    /\ \E i \in 1..Len(ai_fleet) :
           /\ ~AllHits(ai_fleet[i].hits)
           /\ \E k \in 1..Len(ai_fleet[i].hits) : ai_fleet[i].hits[k]

\* C20: against the random-missiles AI, whenever it is the AI's turn in
\* PLAYING possible_moves is not empty, and send_move has not raised.
C20_MovesLeft ==
    /\ (game_state = "PLAYING" /\ ~players_turn) => possible_moves # << >>
    /\ crashed = "None"

\* the AI is to move after the player has fired at all but one cell of the
\* opponent's board
C20_Witness ==
    /\ game_state = "PLAYING" /\ ~players_turn
    /\ player_shots = Len(PlayerScan) - 1
    /\ opponent_shots = player_shots - 1
    /\ Len(possible_moves) = 2

\* C21: against the copycat or the random-missiles AI, when the player on
\* their turn fires at a new cell in the end, a game that is PLAYING reaches
\* PLAYER_WON or OPPONENT_WON, and the player never fires more shots than the
\* opponent's board has cells inside.
C21_GameEnds ==
    /\ (game_state = "PLAYING") ~> (game_state \in {"PLAYER_WON", "OPPONENT_WON"})
    /\ [](player_shots <= Len(PlayerScan))

\* the game won on the shot at the last cell of the opponent's board
C21_Witness ==
    /\ game_state = "PLAYER_WON"
    /\ player_shots = Len(PlayerScan)
    /\ plan = "ships_last"

\* Every position of ship s turned to face d lies strictly inside its rectangle
Fits(s, d) ==
    \A pos \in Range(generate_positions(s.start_pos, d, s.size)) :
        StrictlyInside(pos, s.bounds_y, s.bounds_x)

\* Ship s is placed in bounds
PlacedInBounds(s) ==
    /\ s.positions = generate_positions(s.start_pos, s.rotation, s.size)
    /\ Fits(s, s.rotation)

\* C23: rotate() on a ship that is placed in bounds returns after at most
\* four advances of the orientation and leaves the ship in bounds where it
\* started; when no other orientation fits, the ship keeps its orientation and
\* its positions.
C23_RotateInBounds ==
    PlacedInBounds(ship) =>
        LET r == ShipRotate(ship)
        IN  /\ r.ends
            /\ r.advances <= 4
            /\ PlacedInBounds(r.ship)
            /\ r.ship.start_pos = ship.start_pos
            /\ (\A d \in Direction \ {ship.rotation} : ~Fits(ship, d)) =>
                   (r.ship.rotation = ship.rotation /\ r.ship.positions = ship.positions)

\* rotate() has returned a ship that fits in its own orientation only
C23_Witness ==
    /\ called = "rotate" /\ crashed = "None"
    /\ PlacedInBounds(ship)
    /\ \A d \in Direction \ {ship.rotation} : ~Fits(ship, d)
    /\ ShipRotate(ship).advances = 4

\* No damage flag of any ship in ships is set
NoDamage(ships) ==
    \A i \in 1..Len(ships) : \A k \in 1..Len(ships[i].hits) : ~ships[i].hits[k]

\* C24: while the fleet is placed, when it is placed, and when PLAYING is
\* entered, no damage flag is set on any ship of the player's fleet or of the
\* AI's copy of it, whatever the overlap probe has struck.
C24_ProbeLeavesNoDamage ==
    (\/ game_state \in {"SETUP", "READY"}
     \/ game_state = "PLAYING" /\ player_shots = 0 /\ opponent_shots = 0) =>
        /\ NoDamage(fleet)
        /\ NoDamage(ai_fleet)
        /\ ship # None => NoDamage(<<ship>>)

\* the probe has just struck a ship of the fleet: the ship in hand overlaps it
C24_Witness ==
    /\ game_state = "SETUP"
    /\ Len(fleet) >= 2
    /\ ship # None /\ overlaps
    /\ \E i \in 1..Len(fleet) :
           Range(ship.positions) \cap Range(fleet[i].positions) # {}

====
